---- MODULE Spec2Model ----
(***************************************************************************)
(* Model of the generation router of sprout_backend (src/ai_service.py):   *)
(* generate_raw_response builds a candidate list of models and walks it,   *)
(* calling the backend through _call_model with a per-attempt timeout,     *)
(* retrying or abandoning each model according to the failure it sees.     *)
(***************************************************************************)
EXTENDS Integers, Sequences, FiniteSets, TLC

\* ------------------------------------------------------------------------
\* Configuration (src/ai_service.py, lines 21-31)
\* ------------------------------------------------------------------------

\* The six tiers of MODEL_PRIORITY, in priority order.
AllTiers ==
    << "gemini-2.5-flash-lite", "gemini-2.5-flash", "gemini-2.0-flash",
       "gemini-2.0-flash-lite", "gemini-2.0-flash-exp", "gemini-2.5-pro" >>

\* Bound: how many of the six tiers the model walks.
NumTiers == 2

MODEL_PRIORITY == SubSeq(AllTiers, 1, NumTiers)

REQUEST_TIMEOUT == 12
MAX_RETRIES == 2

\* Python's None, for the optional model_name argument.
None == "<None>"

\* ------------------------------------------------------------------------
\* Python values the router inspects
\* ------------------------------------------------------------------------

Range(s) == { s[i] : i \in 1..Len(s) }

NoDup(s) == \A i, j \in 1..Len(s) : i # j => s[i] # s[j]

\* A text is a sequence of characters, each a one-character string; a
\* character no TLA+ string can hold is written as its Python escape.
\* The characters str.isspace() holds for, which str.strip() removes.
PyWhitespace ==
    { " ", "\t", "\n", "\r", "\f", "\\x0b", "\\x0c",
      "\\x1c", "\\x1d", "\\x1e", "\\x1f", "\\x85", "\\xa0",
      "\\u1680", "\\u2000", "\\u2001", "\\u2002", "\\u2003", "\\u2004",
      "\\u2005", "\\u2006", "\\u2007", "\\u2008", "\\u2009", "\\u200a",
      "\\u2028", "\\u2029", "\\u202f", "\\u205f", "\\u3000" }

IsSpace(c) == c \in PyWhitespace

\* str.strip(): drop leading and trailing whitespace.
RECURSIVE LStrip(_)
LStrip(t) == IF t # <<>> /\ IsSpace(Head(t)) THEN LStrip(Tail(t)) ELSE t

RECURSIVE RStrip(_)
RStrip(t) ==
    IF t # <<>> /\ IsSpace(t[Len(t)]) THEN RStrip(SubSeq(t, 1, Len(t) - 1))
    ELSE t

Strip(t) == RStrip(LStrip(t))

\* Truth value of the optional model_name (line 54): None and "" are falsy.
ModelGiven(model_name) == model_name # None /\ model_name # ""

\* Candidate list construction (lines 51-60): model_name first when given,
\* then every tier not already in the list, in tier order.
RECURSIVE AppendMissing(_, _)
AppendMissing(acc, tiers) ==
    IF tiers = <<>> THEN acc
    ELSE AppendMissing(IF Head(tiers) \in Range(acc) THEN acc
                       ELSE Append(acc, Head(tiers)),
                       Tail(tiers))

\* BuildCandidates without the membership test of line 59.
BuildCandidatesNoDedup(tiers, model_name) ==
    (IF ModelGiven(model_name) THEN << model_name >> ELSE <<>>) \o tiers

BuildCandidates(tiers, model_name) ==
    AppendMissing(IF ModelGiven(model_name) THEN << model_name >> ELSE <<>>,
                  tiers)

\* ------------------------------------------------------------------------
\* Backend outcomes of one _call_model (lines 37-45)
\* ------------------------------------------------------------------------

\* Texts a response can carry: usable, whitespace-only, empty.
TextOk == << "\\xa0", "h", "i", "\r", "\n" >>
TextBlank == << " ", "\\x0b", "\n" >>
TextEmpty == << >>
Texts == { TextOk, TextBlank, TextEmpty }

Response(t) ==
    [kind |-> "response", text |-> t, exc |-> "", code |-> 0, msg |-> {}]

\* An exception: its Python class, the provider's status code, and the
\* lowercased str(e) as the set of tokens it contains.
Raised(cls, code, tokens) ==
    [kind |-> "raise", text |-> <<>>, exc |-> cls, code |-> code, msg |-> tokens]

\* asyncio.wait_for's timeout: TimeoutError(), whose str is empty.
TimeoutErr == Raised("TimeoutError", 0, {})
QuotaErr == Raised("ClientError", 429, {"429", "resource_exhausted", "quota"})
NotFoundErr == Raised("ClientError", 404, {"404", "not_found", "not found"})
OverloadErr == Raised("ServerError", 503, {"503", "unavailable", "overloaded"})
InternalErr == Raised("ServerError", 500, {"500", "internal"})

\* Task cancellation: asyncio.CancelledError(), whose str is empty.
CancelledErr == Raised("CancelledError", 0, {})

ProviderErrors == { QuotaErr, NotFoundErr, OverloadErr, InternalErr }

\* The classes derived from BaseException and not from Exception;
\* asyncio.CancelledError is one of them.
BaseExceptionOnly ==
    { "BaseException", "BaseExceptionGroup", "CancelledError",
      "GeneratorExit", "KeyboardInterrupt", "SystemExit" }

\* A handler that names the provider's error classes only.
CaughtProviderOnly(cls) == cls \in { "ClientError", "ServerError" }

\* `except Exception` (line 71).
Caught(cls) == cls \notin BaseExceptionOnly

\* The test of line 68 negated.
UsableInverted(t) == Len(t) = 0

\* The test of line 68 without its `res.text` operand.
UsableAny(t) == TRUE

\* Truth value of `res and res.text` (line 68).
Usable(t) == Len(t) > 0

\* The marker list of line 74 without its quota markers.
BreakMarkersNoQuota == { "404", "not found", "overloaded" }

\* The substrings that make the router give up on a model (line 74).
BreakMarkers == { "429", "quota", "404", "not found", "limit", "overloaded" }

\* The break of line 76 taken on every exception.
ShouldBreakAlways(err) == TRUE

ShouldBreak(err) == \E x \in BreakMarkers : x \in err

\* range(MAX_RETRIES + 1).
MoreAttemptsOffByOne(a) == a < MAX_RETRIES

\* range(MAX_RETRIES) (line 63): is there another attempt after this one?
MoreAttempts(a) == a + 1 < MAX_RETRIES

\* asyncio.sleep(attempt).
SleepDelayByAttempt(a) == a

\* asyncio.sleep(1) (line 80): the delay after attempt number a (0-based).
SleepDelay(a) == 1

\* An iteration that steps over every other candidate.
NextIndexSkip(i) == i + 2

\* `for model in models_to_try` (line 62): the index after i.
NextIndex(i) == i + 1

\* The router's return values: text, or None.
NoneResult == [tag |-> "None", val |-> <<>>]
TextResult(t) == [tag |-> "str", val |-> t]

\* ------------------------------------------------------------------------
\* State
\* ------------------------------------------------------------------------
VARIABLES
    tiers,          \* the tier list the router reads (MODEL_PRIORITY)
    pc,             \* "idle", "call", "sleep", "done", "raised"
    model_name,     \* the caller's optional model
    models_to_try,  \* the candidate list
    mi,             \* index of the current model in models_to_try
    attempt,        \* the inner loop variable
    result,         \* the returned value, once pc = "done"
    raised,         \* the class of the exception that left the call
    log,            \* every backend attempt of the call, in order
    delays,         \* every completed asyncio.sleep of the call, in order
    cancel_requested, \* the caller has cancelled the task during this call
    prompt,         \* the prompt of the call
    threads,        \* the backend invocations running in worker threads
    sources,        \* for each attempt of the log, the invocation it awaited
    result_for,     \* the prompt the returned text was generated for
    o_pc,           \* a second caller of _call_model: "idle" or "call"
    o_got,          \* the prompt the second caller's last text was generated for
    o_n,            \* the backend calls the second caller has started
    ep,             \* position of the endpoint handler (src/main.py)
    kind,           \* the endpoint serving the request: "chat", "weekly", "care"
    engine,         \* chat's local `model`
    ret,            \* the value the last routing call returned to the handler
    response,       \* the response body the handler returned
    caught,         \* the handler's `except Exception` ran
    calls,          \* routing calls the request has made
    attempts,       \* backend attempts of the request's finished routing calls
    first,          \* chat's first routing call: its model, candidates, reply
    earlier         \* how the process's previous routing call ended

\* The state of one generate_raw_response call.
rvars == << tiers, pc, model_name, models_to_try, mi, attempt, result, raised,
            log, delays >>

\* The worker threads of asyncio.to_thread and what they deliver.
tvars == << prompt, threads, sources, result_for, o_pc, o_got, o_n >>

\* What the caller of the task has asked of it.
cvars == << cancel_requested >>

\* The endpoint handlers of src/main.py.
evars == << ep, kind, engine, ret, response, caught, calls, attempts, first,
            earlier >>

vars == << rvars, cvars, tvars, evars >>

\* Model names a caller passes: none, one of the tiers, one outside them.
RouteModelNames == { None, "gemini-2.5-flash", "custom-model" }

\* No call of _call_model has been made yet.
InitThreads ==
    /\ prompt = ""
    /\ threads = {}
    /\ sources = <<>>
    /\ result_for = ""
    /\ o_pc = "idle"
    /\ o_got = ""
    /\ o_n = 0

NoResponse == [status |-> "", text |-> NoneResult, engine |-> ""]
NoCall == [model |-> "", candidates |-> <<>>, reply |-> NoneResult, by |-> ""]

\* No request is being served.
InitEndpoint ==
    /\ ep = "idle"
    /\ kind = ""
    /\ engine = ""
    /\ ret = NoneResult
    /\ response = NoResponse
    /\ caught = FALSE
    /\ calls = 0
    /\ attempts = 0
    /\ first = NoCall
    /\ earlier = "none"

Init ==
    /\ InitThreads
    /\ InitEndpoint
    /\ cancel_requested = FALSE
    /\ tiers = MODEL_PRIORITY
    /\ pc = "idle"
    /\ model_name = None
    /\ models_to_try = <<>>
    /\ mi = 0
    /\ attempt = 0
    /\ result = NoneResult
    /\ raised = ""
    /\ log = <<>>
    /\ delays = <<>>

\* ------------------------------------------------------------------------
\* generate_raw_response (lines 47-83)
\* ------------------------------------------------------------------------

\* A candidate list that is MODEL_PRIORITY itself, extended in place.
TiersAliased(ts, candidates) == candidates

\* Lines 51-60 fill a new list: MODEL_PRIORITY is read, never written.
TiersAfterBuild(ts, candidates) == ts

\* Lines 51-63: build the candidate list and enter the loops.
Start(m) ==
    /\ pc = "idle"
    /\ model_name' = m
    /\ models_to_try' = BuildCandidates(tiers, m)
    /\ IF models_to_try' = <<>>
       THEN /\ pc' = "done"
            /\ mi' = 0
       ELSE /\ pc' = "call"
            /\ mi' = 1
    /\ attempt' = 0
    /\ result' = NoneResult
    /\ tiers' = TiersAfterBuild(tiers, models_to_try')
    /\ UNCHANGED << raised, log, delays >>

Entry(out) ==
    [mi |-> mi, model |-> models_to_try[mi], attempt |-> attempt, out |-> out]

\* Leaving the inner loop (break, or range exhausted): the next model, or
\* lines 82-83 when there is none.
Advance ==
    IF NextIndex(mi) <= Len(models_to_try)
    THEN /\ mi' = NextIndex(mi)
         /\ attempt' = 0
         /\ pc' = "call"
         /\ result' = result
    ELSE /\ pc' = "done"
         /\ result' = NoneResult
         /\ UNCHANGED << mi, attempt >>

\* Lines 66-69: the backend answers within the timeout.
CallReturns(t) ==
    /\ pc = "call"
    /\ log' = Append(log, Entry(Response(t)))
    /\ IF Usable(t)
       THEN /\ result' = TextResult(Strip(t))
            /\ pc' = "done"
       ELSE /\ pc' = "sleep"
            /\ result' = result
    /\ UNCHANGED << tiers, model_name, models_to_try, mi, attempt, raised, delays >>

\* Lines 71-78: the handler of an exception e raised inside the try block.
Handle(e) ==
    /\ log' = Append(log, Entry(e))
    /\ IF ~Caught(e.exc)
       THEN /\ pc' = "raised"
            /\ raised' = e.exc
            /\ UNCHANGED << mi, attempt, result >>
       ELSE /\ raised' = raised
            /\ IF ShouldBreak(e.msg)
               THEN Advance
               ELSE /\ pc' = "sleep"
                    /\ UNCHANGED << mi, attempt, result >>
    /\ UNCHANGED << tiers, model_name, models_to_try, delays >>

\* The backend call raises a provider error.
CallRaises(e) ==
    /\ pc = "call"
    /\ Handle(e)

\* asyncio.wait_for gives up after REQUEST_TIMEOUT (lines 38-45).
CallTimesOut ==
    /\ pc = "call"
    /\ Handle(TimeoutErr)

\* Line 80: the sleep after an attempt that neither returned nor broke.
SleepDone ==
    /\ pc = "sleep"
    /\ delays' = Append(delays, [mi |-> mi, attempt |-> attempt,
                                 delay |-> SleepDelay(attempt)])
    /\ IF MoreAttempts(attempt)
       THEN /\ attempt' = attempt + 1
            /\ pc' = "call"
            /\ UNCHANGED << mi, result >>
       ELSE Advance
    /\ UNCHANGED << tiers, model_name, models_to_try, raised, log >>

\* The future of the backend call holds nothing yet.
Pending == [kind |-> "pending", text |-> <<>>, exc |-> "", code |-> 0, msg |-> {}]

\* What the future of a backend call can hold when the task is cancelled.
Held(texts, errors) ==
    { Pending } \cup { Response(t) : t \in texts } \cup errors

\* The caller cancels the task while it awaits _call_model (line 66).  While
\* the future of the backend call is pending, CancelledError is thrown into
\* the await inside the try block.  Once the future holds its outcome and
\* the task has not run yet, asyncio.wait_for (lines 38-45) hands that
\* outcome on in place of the CancelledError: the cancellation is lost and
\* the call goes on.
CancelInCall(held) ==
    /\ pc = "call"
    /\ cancel_requested' = TRUE
    /\ CASE held.kind = "pending" -> Handle(CancelledErr)
         [] held.kind = "response" -> CallReturns(held.text)
         [] held.kind = "raise" -> CallRaises(held)

\* The caller cancels the task during asyncio.sleep (line 80), which is
\* outside the try block.
CancelInSleep ==
    /\ pc = "sleep"
    /\ pc' = "raised"
    /\ raised' = CancelledErr.exc
    /\ cancel_requested' = TRUE
    /\ UNCHANGED << tiers, model_name, models_to_try, mi, attempt, result,
                    log, delays >>

\* One call, seen without its worker threads.
Next ==
    \/ (\E m \in RouteModelNames : Start(m)) /\ UNCHANGED << cvars, tvars, evars >>
    \/ (\E t \in Texts : CallReturns(t)) /\ UNCHANGED << cvars, tvars, evars >>
    \/ (\E e \in ProviderErrors : CallRaises(e))
           /\ UNCHANGED << cvars, tvars, evars >>
    \/ CallTimesOut /\ UNCHANGED << cvars, tvars, evars >>
    \/ SleepDone /\ UNCHANGED << cvars, tvars, evars >>
    \/ (\E h \in Held(Texts, ProviderErrors) : CancelInCall(h))
           /\ UNCHANGED << tvars, evars >>
    \/ CancelInSleep /\ UNCHANGED << tvars, evars >>

Spec == Init /\ [][Next]_vars

\* asyncio.wait_for ends every await of _call_model after REQUEST_TIMEOUT at
\* the latest, and asyncio.sleep(1) returns: neither wait lasts forever.
FairSpec == Spec /\ WF_rvars(CallTimesOut) /\ WF_rvars(SleepDone)

\* ------------------------------------------------------------------------
\* _call_model and its worker threads (lines 37-45)
\* ------------------------------------------------------------------------

\* The prompts of two callers that use the one client at the same time.
Prompt1 == "prompt-1"
Prompt2 == "prompt-2"

\* client.models.generate_content(model=, contents=) running in a thread of
\* asyncio.to_thread: the n-th invocation started by caller `owner`.
Invocation(owner, n, model, p) ==
    [owner |-> owner, n |-> n, model |-> model, prompt |-> p]

\* A caller that takes the result of any of its own running invocations.
AwaitedAnyOwn(pool, owner, n) == { th \in pool : th.owner = owner }

\* A caller that takes the result of any running invocation.
AwaitedAny(pool, owner, n) == pool

\* `await asyncio.wait_for(asyncio.to_thread(...))`: a caller awaits the
\* future of the invocation it has just started, and no other.
Awaited(pool, owner, n) == { th \in pool : th.owner = owner /\ th.n = n }

\* The thread pool after a step of the call: the invocations in `ended`
\* have returned or raised, and line 66 starts a new one whenever the call
\* arrives at its await.
Track(ended, p) ==
    threads' = (threads \ ended) \cup
               (IF pc' = "call"
                THEN { Invocation(1, Len(log') + 1, models_to_try'[mi'], p) }
                ELSE {})

T_Start(m, p) ==
    /\ Start(m)
    /\ prompt' = p
    /\ Track({}, p)
    /\ UNCHANGED << sources, result_for, o_pc, o_got, o_n >>
    /\ UNCHANGED << cvars, evars >>

\* The awaited invocation returns a response within the timeout; a text
\* that line 69 returns is the text generated for that invocation's prompt.
T_CallReturns(t) ==
    \E th \in Awaited(threads, 1, Len(log) + 1) :
        /\ CallReturns(t)
        /\ Track({ th }, prompt)
        /\ sources' = Append(sources, th.n)
        /\ result_for' = IF pc' = "done" THEN th.prompt ELSE result_for
        /\ UNCHANGED << prompt, o_pc, o_got, o_n >>
        /\ UNCHANGED << cvars, evars >>

\* The awaited invocation raises.
T_CallRaises(e) ==
    \E th \in Awaited(threads, 1, Len(log) + 1) :
        /\ CallRaises(e)
        /\ Track({ th }, prompt)
        /\ sources' = Append(sources, th.n)
        /\ UNCHANGED << prompt, result_for, o_pc, o_got, o_n >>
        /\ UNCHANGED << cvars, evars >>

\* wait_for gives up on the awaited invocation: its future is cancelled, but
\* the thread cannot be stopped and goes on running generate_content.
T_CallTimesOut ==
    \E th \in Awaited(threads, 1, Len(log) + 1) :
        /\ CallTimesOut
        /\ Track({}, prompt)
        /\ sources' = Append(sources, th.n)
        /\ UNCHANGED << prompt, result_for, o_pc, o_got, o_n >>
        /\ UNCHANGED << cvars, evars >>

T_SleepDone ==
    /\ SleepDone
    /\ Track({}, prompt)
    /\ UNCHANGED << prompt, sources, result_for, o_pc, o_got, o_n >>
    /\ UNCHANGED << cvars, evars >>

\* Cancelling the await of a pending invocation leaves the thread running,
\* as a timeout does; an invocation whose outcome the future already holds
\* has ended, and the call takes that outcome.
T_CancelInCall(held) ==
    \E th \in Awaited(threads, 1, Len(log) + 1) :
        /\ CancelInCall(held)
        /\ Track(IF held = Pending THEN {} ELSE { th }, prompt)
        /\ sources' = Append(sources, th.n)
        /\ result_for' = IF pc' = "done" THEN th.prompt ELSE result_for
        /\ UNCHANGED << prompt, o_pc, o_got, o_n >>
        /\ UNCHANGED evars

T_CancelInSleep ==
    /\ CancelInSleep
    /\ UNCHANGED tvars
    /\ UNCHANGED evars

\* An invocation nobody awaits any more (its caller's wait timed out or was
\* cancelled) completes in its thread: the outcome is dropped.
AbandonedFinishes ==
    \E th \in threads :
        /\ \/ th.owner = 1 /\ th.n <= Len(log)
           \/ th.owner = 2 /\ (o_pc = "idle" \/ th.n < o_n - 1)
        /\ threads' = threads \ { th }
        /\ UNCHANGED << rvars, prompt, sources, result_for, o_pc, o_got, o_n >>
        /\ UNCHANGED << cvars, evars >>

\* The number of backend calls of the second caller that are followed.
MaxOtherCalls == 1

\* A second caller enters _call_model with its own prompt, on the same
\* client and thread pool.
O_Call(m) ==
    /\ o_pc = "idle"
    /\ o_n < MaxOtherCalls
    /\ o_pc' = "call"
    /\ o_n' = o_n + 1
    /\ threads' = threads \cup { Invocation(2, o_n, m, Prompt2) }
    /\ UNCHANGED << rvars, prompt, sources, result_for, o_got >>
    /\ UNCHANGED << cvars, evars >>

\* The second caller's awaited invocation returns.
O_Returns ==
    /\ o_pc = "call"
    /\ \E th \in Awaited(threads, 2, o_n - 1) :
           /\ o_got' = th.prompt
           /\ threads' = threads \ { th }
    /\ o_pc' = "idle"
    /\ UNCHANGED << rvars, prompt, sources, result_for, o_n >>
    /\ UNCHANGED << cvars, evars >>

\* The second caller's awaited invocation raises.
O_Raises ==
    /\ o_pc = "call"
    /\ \E th \in Awaited(threads, 2, o_n - 1) : threads' = threads \ { th }
    /\ o_pc' = "idle"
    /\ UNCHANGED << rvars, prompt, sources, result_for, o_got, o_n >>
    /\ UNCHANGED << cvars, evars >>

\* The second caller's wait ends with TimeoutError or CancelledError while
\* its invocation is pending: the call is over, the thread runs on.
O_GivesUp ==
    /\ o_pc = "call"
    /\ Awaited(threads, 2, o_n - 1) # {}
    /\ o_pc' = "idle"
    /\ UNCHANGED << rvars, prompt, threads, sources, result_for, o_got, o_n >>
    /\ UNCHANGED << cvars, evars >>

ThreadModelNames == { None }
ThreadTexts == { TextOk, TextEmpty }
ThreadErrors == { QuotaErr }

NextThreads ==
    \/ \E m \in ThreadModelNames : T_Start(m, Prompt1)
    \/ \E t \in ThreadTexts : T_CallReturns(t)
    \/ \E e \in ThreadErrors : T_CallRaises(e)
    \/ T_CallTimesOut
    \/ T_SleepDone
    \/ \E h \in Held(ThreadTexts, ThreadErrors) : T_CancelInCall(h)
    \/ T_CancelInSleep
    \/ AbandonedFinishes
    \/ \E m \in Range(MODEL_PRIORITY) : O_Call(m)
    \/ O_Returns
    \/ O_Raises
    \/ O_GivesUp

\* One call with its worker threads, next to a second caller.
ThreadSpec == Init /\ [][NextThreads]_vars

\* ------------------------------------------------------------------------
\* The endpoints of src/main.py that call the router
\* ------------------------------------------------------------------------

MODEL_TIERS ==
    [smart |-> "gemini-2.5-flash",
     analysis |-> "gemini-2.5-flash",
     lite |-> "gemini-2.5-flash-lite"]

\* The static texts of the handlers, each one non-empty string.
ChatErrorReply == << "My neural roots are tangled. Try again soon" >>
CollectingData == << "Collecting more biological data" >>
AnalysisPending == << "Analysis pending" >>
CareFallbackTip == << "keep my soil moist" >>
\* The value json.loads made of a reply.
ParsedJson == << "json" >>

\* A test for None alone, as `if reply is None` would be.
FalsyNoneOnly(v) == v.tag = "None"

\* `not reply` (src/main.py line 122): None and "" are both falsy.
Falsy(v) == v.tag = "None" \/ Len(v.val) = 0

\* `report or "Analysis pending"` (src/main.py line 176).
Or(v, w) == IF v.tag = "None" \/ Len(v.val) = 0 THEN w ELSE v

\* The engine label set to the model the second call asked for.
FallbackEngineModelName == MODEL_TIERS.lite

\* The label of src/main.py line 129.
FallbackEngine == "fallback-lite"

\* The handler returns a body.
Respond(text, eng) ==
    /\ ep' = "responded"
    /\ response' = [status |-> "200", text |-> text, engine |-> eng]

\* A handler calls generate_raw_response, directly or through
\* chat_with_plant (src/ai_service.py line 106), which passes its result on.
Route(m) ==
    /\ Start(m)
    /\ calls' = calls + 1

\* generate_raw_response returns to the awaiting handler; its frame, and
\* with it every local of the call, is gone.
RouteReturns ==
    /\ ep \in { "route1", "route2" }
    /\ pc = "done"
    /\ ret' = result
    /\ attempts' = attempts + Len(log)
    /\ ep' = IF ep = "route1" THEN "got1" ELSE "got2"
    /\ first' = IF ep = "route1"
                THEN [first EXCEPT !.reply = result,
                                   !.by = IF result.tag = "str"
                                          THEN models_to_try[mi] ELSE ""]
                ELSE first
    /\ earlier' = IF result.tag = "str" THEN "text" ELSE "exhausted"
    /\ pc' = "idle"
    /\ model_name' = None
    /\ models_to_try' = <<>>
    /\ mi' = 0
    /\ attempt' = 0
    /\ result' = NoneResult
    /\ log' = <<>>
    /\ delays' = <<>>
    /\ cancel_requested' = FALSE
    /\ UNCHANGED << tiers, raised, tvars, kind, engine, response, caught,
                    calls >>

\* POST /chat, lines 95-98: the handler starts the profile read and is
\* suspended in it.
ChatBegin ==
    /\ ep = "idle"
    /\ kind' = "chat"
    /\ ep' = "read_profile"
    /\ UNCHANGED << rvars, cvars, tvars, engine, ret, response, caught, calls,
                    attempts, first, earlier >>

\* POST /chat, lines 98-120: the profile read ends; the tier choice and the
\* first routing call follow.  A failing read is caught by line 132.
ChatProfileRead(needs_analysis, db_ok) ==
    /\ ep = "read_profile"
    /\ kind = "chat"
    /\ IF db_ok
       THEN /\ engine' = IF needs_analysis THEN MODEL_TIERS.analysis
                                           ELSE MODEL_TIERS.smart
            /\ Route(engine')
            /\ first' = [first EXCEPT !.model = engine',
                                      !.candidates = models_to_try']
            /\ ep' = "route1"
            /\ UNCHANGED << response, caught >>
       ELSE /\ caught' = TRUE
            /\ Respond(TextResult(ChatErrorReply), "error")
            /\ UNCHANGED << rvars, engine, calls, first >>
    /\ UNCHANGED << cvars, tvars, kind, ret, attempts, earlier >>

\* POST /chat, lines 122-131 after the first call: the second call on a
\* falsy reply, the response otherwise.
ChatContinue ==
    /\ ep = "got1"
    /\ kind = "chat"
    /\ IF Falsy(ret)
       THEN /\ Route(MODEL_TIERS.lite)
            /\ ep' = "route2"
            /\ UNCHANGED response
       ELSE /\ Respond(ret, engine)
            /\ UNCHANGED << rvars, calls >>
    /\ UNCHANGED << cvars, tvars, kind, engine, ret, caught, attempts, first,
                    earlier >>

\* POST /chat, lines 129-131 after the second call.
ChatFallbackReturns ==
    /\ ep = "got2"
    /\ kind = "chat"
    /\ engine' = FallbackEngine
    /\ Respond(ret, engine')
    /\ UNCHANGED << rvars, cvars, tvars, kind, ret, caught, calls, attempts, first,
                    earlier >>

\* GET /analytics/week, lines 145-147: the handler starts the statistics
\* read, outside the try block, and is suspended in it.
WeeklyBegin ==
    /\ ep = "idle"
    /\ kind' = "weekly"
    /\ ep' = "read_stats"
    /\ UNCHANGED << rvars, cvars, tvars, engine, ret, response, caught, calls,
                    attempts, first, earlier >>

StatsOutcomes == { "error", "few", "enough" }

\* GET /analytics/week, lines 147-156: the statistics read ends.  Its error
\* leaves the handler; fewer than two days return early; otherwise the
\* history read starts.
WeeklyStatsRead(o) ==
    /\ ep = "read_stats"
    /\ CASE o = "error" ->
              /\ ep' = "failed"
              /\ UNCHANGED response
         [] o = "few" ->
              Respond(TextResult(CollectingData), "")
         [] o = "enough" ->
              /\ ep' = "read_history"
              /\ UNCHANGED response
    /\ UNCHANGED << rvars, cvars, tvars, kind, engine, ret, caught, calls, attempts,
                    first, earlier >>

\* GET /analytics/week, lines 156-157: the history read ends and the profile
\* read starts; an error is caught by line 179.
WeeklyHistoryRead(db_ok) ==
    /\ ep = "read_history"
    /\ IF db_ok
       THEN /\ ep' = "read_profile"
            /\ UNCHANGED << response, caught >>
       ELSE /\ caught' = TRUE
            /\ Respond(TextResult(AnalysisPending), "")
    /\ UNCHANGED << rvars, cvars, tvars, kind, engine, ret, calls, attempts, first,
                    earlier >>

\* GET /analytics/week, lines 157-172: the profile read ends and the routing
\* call starts; an error is caught by line 179.
WeeklyProfileRead(db_ok) ==
    /\ ep = "read_profile"
    /\ kind = "weekly"
    /\ IF db_ok
       THEN /\ Route(MODEL_TIERS.lite)
            /\ ep' = "route1"
            /\ UNCHANGED << response, caught >>
       ELSE /\ caught' = TRUE
            /\ Respond(TextResult(AnalysisPending), "")
            /\ UNCHANGED << rvars, calls >>
    /\ UNCHANGED << cvars, tvars, kind, engine, ret, attempts, first, earlier >>

\* The request is cancelled while the handler awaits a database read: the
\* handler ends with CancelledError, which no except clause catches, before
\* any routing call.
ReadCancelled ==
    /\ ep \in { "read_profile", "read_stats", "read_history" }
    /\ ep' = "aborted"
    /\ UNCHANGED << rvars, cvars, tvars, kind, engine, ret, response, caught, calls,
                    attempts, first, earlier >>

\* GET /analytics/week, lines 174-177.
WeeklyContinue ==
    /\ ep = "got1"
    /\ kind = "weekly"
    /\ Respond(Or(ret, TextResult(AnalysisPending)), "")
    /\ UNCHANGED << rvars, cvars, tvars, kind, engine, ret, caught, calls, attempts,
                    first, earlier >>

\* POST /plant/care_profile, lines 193-206.
CareBegin ==
    /\ ep = "idle"
    /\ kind' = "care"
    /\ Route(MODEL_TIERS.lite)
    /\ ep' = "route1"
    /\ UNCHANGED << cvars, tvars, engine, ret, response, caught, attempts, first,
                    earlier >>

\* POST /plant/care_profile, lines 208-219: ValueError on a falsy text and
\* the error of json.loads are caught alike.
CareContinue(parses) ==
    /\ ep = "got1"
    /\ kind = "care"
    /\ IF ~(ret.tag = "None" \/ Len(ret.val) = 0) /\ parses
       THEN /\ Respond(TextResult(ParsedJson), "")
            /\ UNCHANGED caught
       ELSE /\ caught' = TRUE
            /\ Respond(TextResult(CareFallbackTip), "")
    /\ UNCHANGED << rvars, cvars, tvars, kind, engine, ret, calls, attempts, first,
                    earlier >>

\* A step of the routing call a handler awaits.
Routing(step) ==
    /\ ep \in { "route1", "route2" }
    /\ step
    /\ UNCHANGED << tvars, evars >>

\* The request is cancelled while the handler awaits the router:
\* CancelledError is no Exception, no handler's except clause catches it.
RoutingCancelled(step) ==
    /\ ep \in { "route1", "route2" }
    /\ step
    /\ ep' = "aborted"
    /\ earlier' = "cancelled"
    /\ UNCHANGED << tvars, kind, engine, ret, response, caught, calls,
                    attempts, first >>

\* The server takes its next request; nothing of the last one is kept.
NextRequest ==
    /\ ep \in { "responded", "aborted", "failed" }
    /\ ep' = "idle"
    /\ kind' = ""
    /\ engine' = ""
    /\ ret' = NoneResult
    /\ response' = NoResponse
    /\ caught' = FALSE
    /\ calls' = 0
    /\ attempts' = 0
    /\ first' = NoCall
    /\ pc' = "idle"
    /\ model_name' = None
    /\ models_to_try' = <<>>
    /\ mi' = 0
    /\ attempt' = 0
    /\ result' = NoneResult
    /\ raised' = ""
    /\ log' = <<>>
    /\ delays' = <<>>
    /\ cancel_requested' = FALSE
    /\ UNCHANGED << tiers, tvars, earlier >>

\* The errors of the backend call the endpoints are run against: a quota
\* error, which ends a model's turn, and an exception of no provider class,
\* which is retried.
UnexpectedErr == Raised("ValueError", 0, {"boom"})
EndpointErrors == { QuotaErr, UnexpectedErr }

NextEndpoint ==
    \/ ChatBegin
    \/ \E n \in BOOLEAN, d \in BOOLEAN : ChatProfileRead(n, d)
    \/ ChatContinue
    \/ ChatFallbackReturns
    \/ WeeklyBegin
    \/ \E o \in StatsOutcomes : WeeklyStatsRead(o)
    \/ \E d \in BOOLEAN : WeeklyHistoryRead(d)
    \/ \E d \in BOOLEAN : WeeklyProfileRead(d)
    \/ WeeklyContinue
    \/ ReadCancelled
    \/ CareBegin
    \/ \E j \in BOOLEAN : CareContinue(j)
    \/ RouteReturns
    \/ \E t \in Texts : Routing(CallReturns(t)) /\ UNCHANGED cvars
    \/ \E e \in EndpointErrors : Routing(CallRaises(e)) /\ UNCHANGED cvars
    \/ Routing(CallTimesOut) /\ UNCHANGED cvars
    \/ Routing(SleepDone) /\ UNCHANGED cvars
    \/ RoutingCancelled(CancelInCall(Pending))
    \/ \E h \in Held(Texts, EndpointErrors) \ { Pending } :
           Routing(CancelInCall(h))
    \/ RoutingCancelled(CancelInSleep)
    \/ NextRequest

\* The server, one request followed through its handler at a time.  A
\* handler's frame is its own: requests served at the same time meet only
\* in the backend client, which ThreadSpec follows.
EndpointSpec == Init /\ [][NextEndpoint]_vars

\* ------------------------------------------------------------------------
\* Candidate construction over arbitrary tier lists
\* ------------------------------------------------------------------------

\* Bound: the longest tier list drawn, and the size of the tier universe.
MaxTierLen == 3

TierUniverse == Range(SubSeq(AllTiers, 1, MaxTierLen))

\* Every duplicate-free tier list over the universe (MODEL_PRIORITY is a
\* literal list of distinct names).
TierLists ==
    { s \in UNION { [1..n -> TierUniverse] : n \in 0..MaxTierLen } : NoDup(s) }

BuildModelNames == { None, "", "custom-model" } \cup TierUniverse

InitBuild ==
    /\ InitThreads
    /\ InitEndpoint
    /\ cancel_requested = FALSE
    /\ tiers \in TierLists
    /\ pc = "idle"
    /\ model_name = None
    /\ models_to_try = <<>>
    /\ mi = 0
    /\ attempt = 0
    /\ result = NoneResult
    /\ raised = ""
    /\ log = <<>>
    /\ delays = <<>>

NextBuild ==
    (\E m \in BuildModelNames : Start(m)) /\ UNCHANGED << cvars, tvars, evars >>

BuildSpec == InitBuild /\ [][NextBuild]_vars

\* ------------------------------------------------------------------------
\* Properties
\* ------------------------------------------------------------------------

IsBlank(t) == \A i \in 1..Len(t) : IsSpace(t[i])

AttemptsOn(c) == { i \in 1..Len(log) : log[i].mi = c }

\* C1: whenever the router returns text, the text is non-empty and not
\* whitespace-only (a blank backend response is never what the call returns).
C1_SuccessTextNonBlank ==
    (pc = "done" /\ result.tag = "str") => ~IsBlank(result.val)

\* C2: the candidate list has no duplicates, starts with the given model
\* when one is given, continues with the tiers not already present in tier
\* order, and is exactly the tier list when no model is given.
C2_CandidateList ==
    pc # "idle" =>
        /\ NoDup(models_to_try)
        /\ ModelGiven(model_name) =>
               /\ models_to_try # <<>>
               /\ Head(models_to_try) = model_name
               /\ Tail(models_to_try)
                      = SelectSeq(tiers, LAMBDA x : x # model_name)
        /\ ~ModelGiven(model_name) => models_to_try = tiers

\* A model given from inside the tier list, not at its head, was moved to
\* the front of a three-model candidate list.
C2_Witness ==
    /\ pc # "idle"
    /\ Len(tiers) >= 3
    /\ model_name = tiers[3]
    /\ models_to_try = << tiers[3], tiers[1], tiers[2] >>

AllQuotaOrNotFound ==
    \A i \in 1..Len(log) : log[i].out.code \in { 429, 404 }

\* C3: while every backend call raises a rate-limit or not-found signal, the
\* router attempts the candidates in order, once each, never sleeps or
\* retries, and returns None after the last one.
C3_RateLimitedSweep ==
    (pc \in { "call", "done" } /\ AllQuotaOrNotFound) =>
        /\ \A i \in 1..Len(log) :
               /\ log[i].mi = i
               /\ log[i].model = models_to_try[i]
               /\ log[i].attempt = 0
        /\ delays = <<>>
        /\ pc = "call" => Len(log) < Len(models_to_try)
        /\ pc = "done" => /\ Len(log) = Len(models_to_try)
                          /\ result = NoneResult

\* A finished sweep over at least two candidates in which both signals
\* occurred.
C3_Witness ==
    /\ pc = "done"
    /\ AllQuotaOrNotFound
    /\ Len(log) = Len(models_to_try)
    /\ Len(log) >= 2
    /\ \E i, j \in 1..Len(log) : log[i].out = QuotaErr /\ log[j].out = NotFoundErr

\* Candidate c is behind the router: it moved on, or returned None after it.
Left(c) == c < mi \/ (c = mi /\ pc = "done" /\ result.tag = "None")

IsTimedOut(o) == o.kind = "raise" /\ o.exc = "TimeoutError"
IsProviderError(o) == o.kind = "raise" /\ o.exc \in { "ClientError", "ServerError" }
IsRateLimited(o) == IsProviderError(o) /\ o.code = 429
IsNotFound(o) == IsProviderError(o) /\ o.code = 404
IsGenericTransient(o) == IsProviderError(o) /\ o.code \notin { 429, 404 }
IsUsableResponse(o) == o.kind = "response" /\ ~IsBlank(o.text)
IsEmptyResponse(o) == o.kind = "response" /\ o.text = <<>>

\* The error text carries one of the substrings the handler looks for.
HasGiveUpText(o) ==
    /\ o.kind = "raise"
    /\ o.msg \cap { "429", "quota", "404", "not found", "limit", "overloaded" } # {}

\* C4 as stated: a candidate the router left with fewer than MAX_RETRIES
\* attempts saw a rate-limit or not-found error, and a candidate whose
\* attempts all timed out or raised another provider error got exactly
\* MAX_RETRIES attempts.
C4_EarlyOnlyOnQuotaOrNotFound ==
    \A c \in 1..Len(models_to_try) : Left(c) =>
        /\ Cardinality(AttemptsOn(c)) < MAX_RETRIES =>
               \E i \in AttemptsOn(c) :
                   IsRateLimited(log[i].out) \/ IsNotFound(log[i].out)
        /\ (\A i \in AttemptsOn(c) :
                IsTimedOut(log[i].out) \/ IsGenericTransient(log[i].out))
               => Cardinality(AttemptsOn(c)) = MAX_RETRIES

\* C4 amended: a candidate the router left with fewer than MAX_RETRIES
\* attempts saw an error whose text carries a give-up marker (429, quota,
\* 404, not found, limit, overloaded), and a candidate whose attempts all
\* timed out or raised an error without such a marker got exactly
\* MAX_RETRIES attempts.
C4_EarlyOnlyOnGiveUpText ==
    \A c \in 1..Len(models_to_try) : Left(c) =>
        /\ Cardinality(AttemptsOn(c)) < MAX_RETRIES =>
               \E i \in AttemptsOn(c) : HasGiveUpText(log[i].out)
        /\ (\A i \in AttemptsOn(c) :
                \/ IsTimedOut(log[i].out)
                \/ IsProviderError(log[i].out) /\ ~HasGiveUpText(log[i].out))
               => Cardinality(AttemptsOn(c)) = MAX_RETRIES

\* The router left a candidate after a timeout and an internal error, and
\* another one after a single overload error.
C4_Witness ==
    \E c, d \in 1..Len(models_to_try) :
        /\ Left(c) /\ Left(d)
        /\ Cardinality(AttemptsOn(c)) = MAX_RETRIES
        /\ \E i, j \in AttemptsOn(c) :
               log[i].out = TimeoutErr /\ log[j].out = InternalErr
        /\ Cardinality(AttemptsOn(d)) = 1
        /\ \E i \in AttemptsOn(d) : log[i].out = OverloadErr

\* C5: on one model, the delay slept after attempt k+1 is strictly longer
\* than the delay slept after attempt k.
C5_BackoffStrictlyIncreasing ==
    \A i, j \in 1..Len(delays) :
        (delays[i].mi = delays[j].mi /\ delays[j].attempt = delays[i].attempt + 1)
            => delays[j].delay > delays[i].delay

\* The first candidate timed out on its first MAX_RETRIES - 1 attempts and
\* answered with usable text on the next one.
TimeoutsThenSuccess ==
    /\ Len(log) >= MAX_RETRIES
    /\ \A i \in 1..(MAX_RETRIES - 1) : log[i].out = TimeoutErr
    /\ log[MAX_RETRIES].out = Response(TextOk)

\* C6: an attempt that yields usable text is the last attempt of the call,
\* and the call has returned that text as line 69 strips it; after
\* MAX_RETRIES - 1 timeouts and a success on the first candidate no other
\* candidate was attempted.
C6_FirstSuccessEnds ==
    /\ \A i \in 1..Len(log) : IsUsableResponse(log[i].out) =>
           /\ i = Len(log)
           /\ pc = "done"
           /\ result = TextResult(Strip(log[i].out.text))
    /\ TimeoutsThenSuccess =>
           /\ pc = "done"
           /\ result = TextResult(<< "h", "i" >>)
           /\ Len(log) = MAX_RETRIES
           /\ \A i \in 1..Len(log) : log[i].mi = 1

C6_Witness ==
    /\ TimeoutsThenSuccess
    /\ pc = "done"
    /\ Len(models_to_try) >= 2

\* What follows attempt i when it counts as a failed attempt to be retried:
\* the same model again while attempts remain, the next model (or None)
\* when they are used up, and never a returned text.
RetriedOrAdvanced(i) ==
    LET last == log[i].attempt + 1 >= MAX_RETRIES
        succMi == IF last THEN log[i].mi + 1 ELSE log[i].mi
        succAttempt == IF last THEN 0 ELSE log[i].attempt + 1
    IN  /\ i < Len(log) =>
               /\ log[i + 1].mi = succMi
               /\ log[i + 1].attempt = succAttempt
        /\ i = Len(log) =>
               /\ pc = "call" => mi = succMi /\ attempt = succAttempt
               /\ pc = "sleep" => mi = log[i].mi /\ attempt = log[i].attempt
               /\ pc = "done" =>
                      /\ result = NoneResult
                      /\ last
                      /\ log[i].mi = Len(models_to_try)

AllEmpty == \A i \in 1..Len(log) : IsEmptyResponse(log[i].out)

\* C7: an empty response is followed by what follows an internal provider
\* error (retry while attempts remain, then the next model), and when every
\* response is empty the call makes MAX_RETRIES attempts on every candidate,
\* in order, and returns None.
C7_EmptyIsTransient ==
    /\ \A i \in 1..Len(log) :
           (IsEmptyResponse(log[i].out) \/ log[i].out = InternalErr)
               => RetriedOrAdvanced(i)
    /\ (AllEmpty /\ pc = "done") =>
           /\ result = NoneResult
           /\ Len(log) = MAX_RETRIES * Len(models_to_try)
           /\ \A i \in 1..Len(log) :
                  /\ log[i].mi = ((i - 1) \div MAX_RETRIES) + 1
                  /\ log[i].attempt = (i - 1) % MAX_RETRIES

C7_Witness ==
    /\ pc = "done"
    /\ AllEmpty
    /\ result = NoneResult
    /\ Len(models_to_try) >= 2
    /\ Len(log) = MAX_RETRIES * Len(models_to_try)

\* C8: the only exception that leaves the call is the caller's own
\* cancellation: no timeout or provider error of an attempt is the exception
\* the call ends with, and a call that ended without one returned text or
\* None.
C8_NoErrorEscapes ==
    /\ pc = "raised" => raised = "CancelledError"
    /\ raised \notin { "TimeoutError", "ClientError", "ServerError" }
    /\ pc = "done" => result.tag \in { "str", "None" }
    /\ \A i \in 1..Len(log) :
           (IsTimedOut(log[i].out) \/ IsProviderError(log[i].out))
               => raised \in { "", "CancelledError" }

\* A call that returned after a timeout, a client error and a server error.
C8_Witness ==
    /\ pc = "done"
    /\ \E i, j, k \in 1..Len(log) :
           /\ log[i].out = TimeoutErr
           /\ log[j].out.exc = "ClientError"
           /\ log[k].out.exc = "ServerError"

ExhaustedOnQuotaOrNotFound(c) ==
    \/ /\ Cardinality(AttemptsOn(c)) = MAX_RETRIES
       /\ \A i \in AttemptsOn(c) : ~IsUsableResponse(log[i].out)
    \/ \E i \in AttemptsOn(c) :
           IsRateLimited(log[i].out) \/ IsNotFound(log[i].out)

ExhaustedOnGiveUpText(c) ==
    \/ /\ Cardinality(AttemptsOn(c)) = MAX_RETRIES
       /\ \A i \in AttemptsOn(c) : ~IsUsableResponse(log[i].out)
    \/ \E i \in AttemptsOn(c) : HasGiveUpText(log[i].out)

AttemptsBounded == Len(log) <= Len(models_to_try) * MAX_RETRIES

\* The call is suspended in an await: it has neither returned nor raised.
Running == pc \in { "call", "sleep" }

\* C9 as stated: a call does not stay suspended for ever (it returns, or
\* ends with its caller's cancellation), its result never changes afterwards, after at most |candidates| x MAX_RETRIES
\* attempts, and it returns None only when every candidate used MAX_RETRIES
\* attempts without usable text or was abandoned on a rate-limit or
\* not-found error.
C9_TerminatesExhaustedOnQuotaOrNotFound ==
    /\ [](AttemptsBounded)
    /\ []((pc = "done" /\ result = NoneResult) =>
              \A c \in 1..Len(models_to_try) : ExhaustedOnQuotaOrNotFound(c))
    /\ [][pc = "done" => (pc' = "done" /\ result' = result)]_vars
    /\ [](pc = "raised" => raised = "CancelledError")
    /\ <>[](~Running)

\* C9 amended: the same, where a candidate counts as abandoned when one of
\* its attempts raised an error whose text carries a give-up marker (429,
\* quota, 404, not found, limit, overloaded).
C9_TerminatesExhaustedOnGiveUpText ==
    /\ [](AttemptsBounded)
    /\ []((pc = "done" /\ result = NoneResult) =>
              \A c \in 1..Len(models_to_try) : ExhaustedOnGiveUpText(c))
    /\ [][pc = "done" => (pc' = "done" /\ result' = result)]_vars
    /\ [](pc = "raised" => raised = "CancelledError")
    /\ <>[](~Running)

\* A call that returned None after the full budget of attempts, one
\* candidate having been given up on an overload error.
C9_Witness ==
    /\ pc = "done"
    /\ result = NoneResult
    /\ Len(models_to_try) >= 2
    /\ \E c \in 1..Len(models_to_try) :
           /\ Cardinality(AttemptsOn(c)) = MAX_RETRIES
           /\ \A i \in AttemptsOn(c) : IsTimedOut(log[i].out)
    /\ \E i \in 1..Len(log) : log[i].out = OverloadErr

\* C10: every attempt is made on the candidate at its index, the first
\* attempt is on the first candidate, and each later attempt is on the same
\* candidate as the one before it or on the next one in the list.
C10_CandidateOrder ==
    /\ \A i \in 1..Len(log) :
           /\ log[i].mi \in 1..Len(models_to_try)
           /\ log[i].model = models_to_try[log[i].mi]
    /\ log # <<>> => log[1].mi = 1
    /\ \A i \in 1..(Len(log) - 1) :
           log[i + 1].mi \in { log[i].mi, log[i].mi + 1 }
    /\ pc = "call" =>
           mi \in (IF log = <<>> THEN { 1 }
                   ELSE { log[Len(log)].mi, log[Len(log)].mi + 1 })

\* A call over three candidates that retried one of them and reached the
\* last.
C10_Witness ==
    /\ Len(models_to_try) = 3
    /\ log # <<>>
    /\ log[Len(log)].mi = 3
    /\ \E i \in 1..Len(log) : log[i].attempt = 1
    /\ \E i \in 1..Len(log) : log[i].mi = 2 /\ log[i].attempt = 0

\* C11: once the caller has cancelled a call suspended in a backend call or
\* in a delay, the call has ended with CancelledError: it starts no further
\* attempt, sleeps no more and returns nothing.
C11_CancelStopsCall ==
    cancel_requested => (pc = "raised" /\ raised = "CancelledError")

\* The delay slept after attempt i of the log, if one was.
SleptAfter(i) ==
    { k \in 1..Len(delays) :
          delays[k].mi = log[i].mi /\ delays[k].attempt = log[i].attempt }

\* C16: whenever an attempt is followed by another attempt on the same
\* model, a sleep of non-zero length was completed between the two.
C16_DelayBetweenRetries ==
    \A i \in 1..(Len(log) - 1) :
        log[i + 1].mi = log[i].mi =>
            /\ SleptAfter(i) # {}
            /\ \A k \in SleptAfter(i) : delays[k].delay > 0

\* Retries that followed a timeout, a provider error and an empty response.
C16_Witness ==
    \E i, j, k \in 1..(Len(log) - 1) :
        /\ log[i].out = TimeoutErr /\ log[i + 1].mi = log[i].mi
        /\ log[j].out = InternalErr /\ log[j + 1].mi = log[j].mi
        /\ IsEmptyResponse(log[k].out) /\ log[k + 1].mi = log[k].mi

\* C12: a call that returns text returns text generated for its own prompt,
\* and so does a second caller running at the same time on the same client.
C12_NoCrossContamination ==
    /\ (pc = "done" /\ result.tag = "str") => result_for = prompt
    /\ result_for \in { "", prompt }
    /\ o_got \in { "", Prompt2 }

\* The call returned text while the second caller was awaiting an
\* invocation for another prompt.
C12_Witness ==
    /\ pc = "done"
    /\ result.tag = "str"
    /\ result_for = Prompt1
    /\ o_pc = "call"
    /\ \E th \in threads : th.owner = 2 /\ th.prompt # prompt

\* The invocations of the call that are running in worker threads.
OwnThreads == { th \in threads : th.owner = 1 }

\* C14 as stated: no two backend invocations of one call are in flight at
\* the same time.
C14_OneInvocationInFlight == Cardinality(OwnThreads) <= 1

\* C14 amended: the call awaits exactly one invocation while it is in
\* _call_model and none otherwise, and every other invocation of the call
\* that is still running belongs to an attempt that ended by a timeout or by
\* cancellation.
C14_OneAwaitedInvocation ==
    /\ Cardinality({ th \in OwnThreads : th.n = Len(log) + 1 })
           = (IF pc = "call" THEN 1 ELSE 0)
    /\ \A th \in OwnThreads :
           /\ th.n \in 1..(Len(log) + 1)
           /\ th.n <= Len(log) => log[th.n].out \in { TimeoutErr, CancelledErr }

\* The second attempt on a model is awaited while the invocation of the
\* first, which timed out, is still running.
C14_Witness ==
    /\ pc = "call"
    /\ attempt = 1
    /\ Len(log) >= 1
    /\ log[Len(log)].out = TimeoutErr
    /\ Cardinality(OwnThreads) = 2

\* C15: every attempt's outcome is the outcome of the invocation started
\* for that attempt, a timed-out attempt is logged as a timeout and followed
\* by the retry rule, and when an invocation whose attempt is over completes,
\* nothing of the call changes.
C15_LateResultDiscarded ==
    /\ [](/\ Len(sources) = Len(log)
          /\ \A i \in 1..Len(log) : sources[i] = i)
    /\ [](\A i \in 1..Len(log) : IsTimedOut(log[i].out) =>
              /\ log[i].out = TimeoutErr
              /\ RetriedOrAdvanced(i))
    /\ [][(\E th \in OwnThreads : th.n <= Len(log) /\ th \notin threads')
              => UNCHANGED << rvars, sources, result_for >>]_vars

\* The first attempt timed out, its invocation has completed since, and the
\* call returned the text of the second attempt.
C15_Witness ==
    /\ pc = "done"
    /\ result.tag = "str"
    /\ Len(log) = 2
    /\ log[1].out = TimeoutErr
    /\ sources = << 1, 2 >>
    /\ OwnThreads = {}

\* ------------------------------------------------------------------------
\* The endpoints
\* ------------------------------------------------------------------------

\* The request's last routing call ended with every candidate failed.
RoutingExhausted == calls > 0 /\ ret.tag = "None"

\* C13: a response sent after routing ended in ExhaustedFailure carries a
\* non-empty text, the endpoint's static fallback message, never null or "".
C13_FallbackOnExhaustion ==
    (ep = "responded" /\ RoutingExhausted) =>
        /\ response.text.tag = "str"
        /\ Len(response.text.val) > 0

\* Chat's first routing call gave None or "".
FirstReplyUnusable == first.reply.tag = "None" \/ first.reply.val = <<>>

\* C18: a chat request makes its second routing call, asking for the lite
\* tier, exactly when the first call returned None or "", and never a third;
\* its backend attempts number at most 2 x |candidates| x MAX_RETRIES, and
\* the second call tries the same set of models as the first.
C18_SecondCallOnUnusableReply ==
    kind = "chat" =>
        /\ calls <= 2
        /\ calls = 2 => FirstReplyUnusable
        /\ (ep = "responded" /\ ~caught /\ FirstReplyUnusable) => calls = 2
        /\ ep = "route2" =>
              /\ model_name = MODEL_TIERS.lite
              /\ Range(models_to_try) = Range(first.candidates)
        /\ attempts + Len(log) <= 2 * Len(first.candidates) * MAX_RETRIES

\* A chat request that answered after two routing calls, the first of which
\* returned "", and after the largest number of attempts "" leaves room for.
C18_Witness ==
    /\ ep = "responded"
    /\ kind = "chat"
    /\ calls = 2
    /\ first.reply = TextResult(<<>>)
    /\ response.text.tag = "str"
    /\ attempts = 2 * Len(first.candidates) * MAX_RETRIES - 1

\* C19: the engine field of a chat response is "fallback-lite" exactly when
\* the second routing call was made, "error" exactly when the handler caught
\* an exception, and otherwise the model the first routing call asked for,
\* whichever candidate generated the reply.
C19_EngineLabel ==
    (ep = "responded" /\ kind = "chat") =>
        /\ response.engine = "fallback-lite" <=> calls = 2
        /\ response.engine = "error" <=> caught
        /\ (calls < 2 /\ ~caught) =>
              /\ response.engine = first.model
              /\ first.model = first.candidates[1]

\* A chat response labelled with the first call's model whose text the
\* other tier generated.
C19_Witness ==
    /\ ep = "responded"
    /\ kind = "chat"
    /\ response.engine = MODEL_TIERS.smart
    /\ first.by = MODEL_TIERS.lite
    /\ response.text = first.reply

\* C17: the tier list is never changed, no routing call leaves anything
\* behind, and every call, whatever earlier calls met, begins at its first
\* candidate with attempt 0 on the candidate list built from the tier list.
C17_CallsStartFresh ==
    /\ tiers = MODEL_PRIORITY
    /\ pc = "idle" =>
          /\ models_to_try = <<>>
          /\ log = <<>>
          /\ delays = <<>>
          /\ mi = 0
          /\ attempt = 0
    /\ pc # "idle" =>
          models_to_try = BuildCandidates(MODEL_PRIORITY, model_name)
    /\ (pc = "call" /\ log = <<>>) => (mi = 1 /\ attempt = 0)
    /\ log # <<>> => (log[1].mi = 1 /\ log[1].attempt = 0)

\* After a call that exhausted every candidate, a call of a later request
\* gives its first candidate all MAX_RETRIES attempts.
C17_Witness ==
    /\ earlier = "exhausted"
    /\ calls = 1
    /\ pc = "call"
    /\ mi = 2
    /\ Len(log) = MAX_RETRIES
    /\ \A i \in 1..MAX_RETRIES :
          log[i].mi = 1 /\ log[i].attempt = i - 1 /\ log[i].out = TimeoutErr

====
